---- MODULE Spec2Model ----
(***************************************************************************)
(* Zarumet: cover-art cache, cover loaders and the song-change reactor.    *)
(*                                                                         *)
(* Loader tasks (src/app/main_loop/cover_load.rs) are spawned by           *)
(* check_song_change (src/app/main_loop/state.rs) and run concurrently,    *)
(* sharing the cover cache behind an async RwLock and a bounded mpsc       *)
(* result channel.  Each await point of a task is a separate step.         *)
(***************************************************************************)
EXTENDS Integers, Sequences, FiniteSets, TLC

(* ---- bounds ---- *)
NumKeys == 2
NumBytes == 1
QueueLen == 2
MaxTasks == 4
ChanCap == 1

(* ---- value encodings ---- *)
\* Option<PathBuf>::None
NoKey == 0
\* Option<usize>::None
NoIndex == 0 - 1
\* Option<Vec<u8>>::None, the "no art" result
NoArt == 0
\* no entry for the key in the cache map / no data held by a task yet
Absent == 0 - 1
\* no task holds the write guard
NoTask == 0

Keys == 1..NumKeys
OptKeys == Keys \cup {NoKey}
Data == {NoArt} \cup (1..NumBytes)
\* Result<Option<(bytes, mime)>, CommandError> of client.album_art
FetchResults == {<<"err", 0>>, <<"ok_none", 0>>}
                    \cup {<<"ok_some", b>> : b \in 1..NumBytes}

VARIABLES
    entries,            \* CoverCache: key -> cached data, or Absent
    pending,            \* CoverCache: set of keys being fetched
    lock,               \* task holding cache.write(), or NoTask
    tasks,              \* spawned loader tasks, in spawn order
    chan,               \* mpsc result channel (CoverArtMessage::Loaded)
    rx_closed,          \* receiver of the result channel dropped
    fetches,            \* key -> number of client.album_art calls issued
    current_song_file,  \* last-seen key of the reactor
    protocol_image,     \* protocol.image, NoArt when None
    queue,              \* play queue (file keys)
    poll_tick           \* flips on every call of check_song_change

vars == <<entries, pending, lock, tasks, chan, rx_closed, fetches,
          current_song_file, protocol_image, queue, poll_tick>>

VARIABLES
    last_play_state,    \* state.rs 63: play state seen by the previous poll
    last_sample_rate,   \* state.rs 64: sample rate seen by the previous poll
    rate_requests,      \* detached set/reset rate tasks spawned, in order
    pw_tick             \* flips on every call of handle_pipewire_state_change

pwVars == <<last_play_state, last_sample_rate, rate_requests, pw_tick>>

VARIABLES
    lib_pc,             \* position of load_library
    catalog,            \* songs returned by ListAllIn, <<>> before that
    status_probes,      \* number of Status commands issued
    attempts,           \* number of ListAllIn commands issued
    delays,             \* backoff sleeps, in milliseconds, in order
    canonical,          \* canonical_album_artist: album -> artist
    artists,            \* Library.artists of the Library returned
    all_albums          \* Library.all_albums of the Library returned

libVars == <<lib_pc, catalog, status_probes, attempts, delays, canonical,
             artists, all_albums>>

VARIABLES
    lazy_pc,            \* position of the LazyLibrary's caller
    lazy,               \* the LazyLibrary
    lazy_i,             \* loop index of preload_all_albums / to_full_library
    queried,            \* artist indices queried by the last call, in order
    lazy_result,        \* result of the last call: "none", "ok" or "err"
    full_library        \* the Library returned by to_full_library

lazyVars == <<lazy_pc, lazy, lazy_i, queried, lazy_result, full_library>>

allVars == <<vars, pwVars, libVars, lazyVars>>

(* ---- cover cache operations ---- *)
get(e, k) == e[k]

contains(e, k) == e[k] # Absent

is_pending(p, k) == k \in p

mark_pending(p, k) == p \cup {k}

insert_entries(e, k, d) == [e EXCEPT ![k] = d]

insert_pending(p, k) == p \ {k}

(* ---- prefetch planner ---- *)
find_current_index(q, cs) ==
    IF cs = NoKey \/ ~(\E i \in 1..Len(q) : q[i] = cs)
    THEN NoIndex
    ELSE (CHOOSE i \in 1..Len(q) :
             q[i] = cs /\ \A j \in 1..(i - 1) : q[j] # cs) - 1

get_prefetch_targets(q, idx) ==
    IF idx = NoIndex THEN <<>>
    ELSE LET cur == q[idx + 1]
             nxt == IF idx + 2 <= Len(q) /\ q[idx + 2] # cur
                    THEN <<q[idx + 2]>> ELSE <<>>
             prv == IF idx >= 1 /\ q[idx] # cur
                       /\ (nxt = <<>> \/ nxt[1] # q[idx])
                    THEN <<q[idx]>> ELSE <<>>
         IN nxt \o prv

(* ---- loader tasks ---- *)
NewTask(kind, k) ==
    [kind |-> kind, key |-> k, pc |-> "check", data |-> Absent,
     path |-> "new", sent |-> FALSE]

TaskIds == 1..Len(tasks)

SetTask(t, r) == tasks' = [tasks EXCEPT ![t] = r]

\* cover_load.rs 54-61 / 103-110: Ok(Some) keeps the bytes, Ok(None) and
\* Err both become None
fetch_data(res) == IF res[1] = "ok_some" THEN res[2] ELSE NoArt

\* OD_Check without the is_pending test of lines 40-44
OD_Check_NoPendingCheck(t) ==
    /\ tasks[t].kind = "ondemand" /\ tasks[t].pc = "check"
    /\ lock = NoTask
    /\ LET k == tasks[t].key IN
       IF contains(entries, k)
       THEN /\ lock' = t
            /\ SetTask(t, [tasks[t] EXCEPT !.pc = "send_hit", !.path = "hit",
                                           !.data = get(entries, k)])
            /\ UNCHANGED pending
       ELSE /\ pending' = mark_pending(pending, k)
            /\ SetTask(t, [tasks[t] EXCEPT !.pc = "fetch", !.path = "miss"])
            /\ UNCHANGED lock
    /\ UNCHANGED <<entries, chan, rx_closed, fetches, current_song_file,
                   protocol_image, queue, poll_tick>>

\* OD_Check treating a cached "no art" entry as a miss
OD_Check_RetryNoArt(t) ==
    /\ tasks[t].kind = "ondemand" /\ tasks[t].pc = "check"
    /\ lock = NoTask
    /\ LET k == tasks[t].key IN
       IF contains(entries, k) /\ get(entries, k) # NoArt
       THEN /\ lock' = t
            /\ SetTask(t, [tasks[t] EXCEPT !.pc = "send_hit", !.path = "hit",
                                           !.data = get(entries, k)])
            /\ UNCHANGED pending
       ELSE IF is_pending(pending, k)
       THEN /\ SetTask(t, [tasks[t] EXCEPT !.pc = "done", !.path = "pending"])
            /\ UNCHANGED <<lock, pending>>
       ELSE /\ pending' = mark_pending(pending, k)
            /\ SetTask(t, [tasks[t] EXCEPT !.pc = "fetch", !.path = "miss"])
            /\ UNCHANGED lock
    /\ UNCHANGED <<entries, chan, rx_closed, fetches, current_song_file,
                   protocol_image, queue, poll_tick>>

\* cover_load.rs 27-48: first critical section of the on-demand loader
OD_Check(t) ==
    /\ tasks[t].kind = "ondemand" /\ tasks[t].pc = "check"
    /\ lock = NoTask
    /\ LET k == tasks[t].key IN
       IF contains(entries, k)
       THEN /\ lock' = t
            /\ SetTask(t, [tasks[t] EXCEPT !.pc = "send_hit", !.path = "hit",
                                           !.data = get(entries, k)])
            /\ UNCHANGED pending
       ELSE IF is_pending(pending, k)
       THEN /\ SetTask(t, [tasks[t] EXCEPT !.pc = "done", !.path = "pending"])
            /\ UNCHANGED <<lock, pending>>
       ELSE /\ pending' = mark_pending(pending, k)
            /\ SetTask(t, [tasks[t] EXCEPT !.pc = "fetch", !.path = "miss"])
            /\ UNCHANGED lock
    /\ UNCHANGED <<entries, chan, rx_closed, fetches, current_song_file,
                   protocol_image, queue, poll_tick>>

\* cover_load.rs 31-37: send of the cached value, write guard still held
OD_SendHit(t) ==
    /\ tasks[t].kind = "ondemand" /\ tasks[t].pc = "send_hit"
    /\ lock = t
    /\ \/ /\ rx_closed
          /\ SetTask(t, [tasks[t] EXCEPT !.pc = "done"])
          /\ UNCHANGED chan
       \/ /\ ~rx_closed /\ Len(chan) < ChanCap
          /\ chan' = Append(chan, [data |-> tasks[t].data, key |-> tasks[t].key])
          /\ SetTask(t, [tasks[t] EXCEPT !.pc = "done", !.sent = TRUE])
    /\ lock' = NoTask
    /\ UNCHANGED <<entries, pending, rx_closed, fetches, current_song_file,
                   protocol_image, queue, poll_tick>>

\* cover_load.rs 50-52: the outbound album_art request is issued
OD_Fetch(t) ==
    /\ tasks[t].kind = "ondemand" /\ tasks[t].pc = "fetch"
    /\ fetches' = [fetches EXCEPT ![tasks[t].key] = @ + 1]
    /\ SetTask(t, [tasks[t] EXCEPT !.pc = "await"])
    /\ UNCHANGED <<entries, pending, lock, chan, rx_closed, current_song_file,
                   protocol_image, queue, poll_tick>>

\* cover_load.rs 52-61: the request returns, the result is mapped to data
OD_FetchReturn(t) ==
    /\ tasks[t].kind = "ondemand" /\ tasks[t].pc = "await"
    /\ \E res \in FetchResults :
          SetTask(t, [tasks[t] EXCEPT !.pc = "store", !.data = fetch_data(res)])
    /\ UNCHANGED <<entries, pending, lock, chan, rx_closed, fetches,
                   current_song_file, protocol_image, queue, poll_tick>>

\* OD_Store inserting None instead of the fetched data
OD_Store_DropsData(t) ==
    /\ tasks[t].kind = "ondemand" /\ tasks[t].pc = "store"
    /\ lock = NoTask
    /\ entries' = insert_entries(entries, tasks[t].key, NoArt)
    /\ pending' = insert_pending(pending, tasks[t].key)
    /\ SetTask(t, [tasks[t] EXCEPT !.pc = "send"])
    /\ UNCHANGED <<lock, chan, rx_closed, fetches, current_song_file,
                   protocol_image, queue, poll_tick>>

\* cover_load.rs 63-67: second critical section, insert into the cache
OD_Store(t) ==
    /\ tasks[t].kind = "ondemand" /\ tasks[t].pc = "store"
    /\ lock = NoTask
    /\ entries' = insert_entries(entries, tasks[t].key, tasks[t].data)
    /\ pending' = insert_pending(pending, tasks[t].key)
    /\ SetTask(t, [tasks[t] EXCEPT !.pc = "send"])
    /\ UNCHANGED <<lock, chan, rx_closed, fetches, current_song_file,
                   protocol_image, queue, poll_tick>>

\* OD_Send unwrapping the send result: a closed receiver panics the task
OD_Send_Unwrap(t) ==
    /\ tasks[t].kind = "ondemand" /\ tasks[t].pc = "send"
    /\ \/ /\ rx_closed
          /\ SetTask(t, [tasks[t] EXCEPT !.pc = "panicked"])
          /\ UNCHANGED chan
       \/ /\ ~rx_closed /\ Len(chan) < ChanCap
          /\ chan' = Append(chan, [data |-> tasks[t].data, key |-> tasks[t].key])
          /\ SetTask(t, [tasks[t] EXCEPT !.pc = "done", !.sent = TRUE])
    /\ UNCHANGED <<entries, pending, lock, rx_closed, fetches,
                   current_song_file, protocol_image, queue, poll_tick>>

\* cover_load.rs 69-72: best-effort send of the fetched result
OD_Send(t) ==
    /\ tasks[t].kind = "ondemand" /\ tasks[t].pc = "send"
    /\ \/ /\ rx_closed
          /\ SetTask(t, [tasks[t] EXCEPT !.pc = "done"])
          /\ UNCHANGED chan
       \/ /\ ~rx_closed /\ Len(chan) < ChanCap
          /\ chan' = Append(chan, [data |-> tasks[t].data, key |-> tasks[t].key])
          /\ SetTask(t, [tasks[t] EXCEPT !.pc = "done", !.sent = TRUE])
    /\ UNCHANGED <<entries, pending, lock, rx_closed, fetches,
                   current_song_file, protocol_image, queue, poll_tick>>

\* PF_Check testing only contains, not is_pending
PF_Check_NoPendingCheck(t) ==
    /\ tasks[t].kind = "prefetch" /\ tasks[t].pc = "check"
    /\ lock = NoTask
    /\ LET k == tasks[t].key IN
       IF contains(entries, k)
       THEN /\ SetTask(t, [tasks[t] EXCEPT !.pc = "done", !.path = "hit"])
            /\ UNCHANGED pending
       ELSE /\ pending' = mark_pending(pending, k)
            /\ SetTask(t, [tasks[t] EXCEPT !.pc = "fetch", !.path = "miss"])
    /\ UNCHANGED <<entries, lock, chan, rx_closed, fetches, current_song_file,
                   protocol_image, queue, poll_tick>>

\* PF_Check testing only is_pending, not contains
PF_Check_NoContainsCheck(t) ==
    /\ tasks[t].kind = "prefetch" /\ tasks[t].pc = "check"
    /\ lock = NoTask
    /\ LET k == tasks[t].key IN
       IF is_pending(pending, k)
       THEN /\ SetTask(t, [tasks[t] EXCEPT !.pc = "done", !.path = "pending"])
            /\ UNCHANGED pending
       ELSE /\ pending' = mark_pending(pending, k)
            /\ SetTask(t, [tasks[t] EXCEPT !.pc = "fetch", !.path = "miss"])
    /\ UNCHANGED <<entries, lock, chan, rx_closed, fetches, current_song_file,
                   protocol_image, queue, poll_tick>>

\* cover_load.rs 90-97: critical section of a prefetch loader
PF_Check(t) ==
    /\ tasks[t].kind = "prefetch" /\ tasks[t].pc = "check"
    /\ lock = NoTask
    /\ LET k == tasks[t].key IN
       IF contains(entries, k) \/ is_pending(pending, k)
       THEN /\ SetTask(t, [tasks[t] EXCEPT !.pc = "done",
                  !.path = IF contains(entries, k) THEN "hit" ELSE "pending"])
            /\ UNCHANGED pending
       ELSE /\ pending' = mark_pending(pending, k)
            /\ SetTask(t, [tasks[t] EXCEPT !.pc = "fetch", !.path = "miss"])
    /\ UNCHANGED <<entries, lock, chan, rx_closed, fetches, current_song_file,
                   protocol_image, queue, poll_tick>>

\* cover_load.rs 99-101
PF_Fetch(t) ==
    /\ tasks[t].kind = "prefetch" /\ tasks[t].pc = "fetch"
    /\ fetches' = [fetches EXCEPT ![tasks[t].key] = @ + 1]
    /\ SetTask(t, [tasks[t] EXCEPT !.pc = "await"])
    /\ UNCHANGED <<entries, pending, lock, chan, rx_closed, current_song_file,
                   protocol_image, queue, poll_tick>>

\* cover_load.rs 101-110
PF_FetchReturn(t) ==
    /\ tasks[t].kind = "prefetch" /\ tasks[t].pc = "await"
    /\ \E res \in FetchResults :
          SetTask(t, [tasks[t] EXCEPT !.pc = "store", !.data = fetch_data(res)])
    /\ UNCHANGED <<entries, pending, lock, chan, rx_closed, fetches,
                   current_song_file, protocol_image, queue, poll_tick>>

\* PF_Store also sending the result on the channel, as the on-demand loader
PF_Store_Sends(t) ==
    /\ tasks[t].kind = "prefetch" /\ tasks[t].pc = "store"
    /\ lock = NoTask
    /\ entries' = insert_entries(entries, tasks[t].key, tasks[t].data)
    /\ pending' = insert_pending(pending, tasks[t].key)
    /\ IF ~rx_closed /\ Len(chan) < ChanCap
       THEN /\ chan' = Append(chan, [data |-> tasks[t].data, key |-> tasks[t].key])
            /\ SetTask(t, [tasks[t] EXCEPT !.pc = "done", !.sent = TRUE])
       ELSE /\ SetTask(t, [tasks[t] EXCEPT !.pc = "done"])
            /\ UNCHANGED chan
    /\ UNCHANGED <<lock, rx_closed, fetches, current_song_file,
                   protocol_image, queue, poll_tick>>

\* a prefetch task that ends after its fetch without storing the result
PF_Store_Abandons(t) ==
    /\ tasks[t].kind = "prefetch" /\ tasks[t].pc = "store"
    /\ lock = NoTask
    /\ SetTask(t, [tasks[t] EXCEPT !.pc = "done"])
    /\ UNCHANGED <<entries, pending, lock, chan, rx_closed, fetches,
                   current_song_file, protocol_image, queue, poll_tick>>

\* cover_load.rs 112-117
PF_Store(t) ==
    /\ tasks[t].kind = "prefetch" /\ tasks[t].pc = "store"
    /\ lock = NoTask
    /\ entries' = insert_entries(entries, tasks[t].key, tasks[t].data)
    /\ pending' = insert_pending(pending, tasks[t].key)
    /\ SetTask(t, [tasks[t] EXCEPT !.pc = "done"])
    /\ UNCHANGED <<lock, chan, rx_closed, fetches, current_song_file,
                   protocol_image, queue, poll_tick>>

(* ---- spawning ---- *)
RECURSIVE PrefetchTasks(_)
PrefetchTasks(targets) ==
    IF targets = <<>> THEN <<>>
    ELSE <<NewTask("prefetch", Head(targets))>> \o PrefetchTasks(Tail(targets))

\* cover_load.rs 16-25: one task for the key
spawn_cover_art_loader(ts, k) == Append(ts, NewTask("ondemand", k))

\* spawn_prefetch_loaders also spawning a task for the current entry
spawn_prefetch_loaders_WithCurrent(ts, q, idx) ==
    ts \o PrefetchTasks(get_prefetch_targets(q, idx))
       \o (IF idx = NoIndex THEN <<>>
           ELSE <<NewTask("prefetch", q[idx + 1])>>)

\* cover_load.rs 77-89: one task per prefetch target
spawn_prefetch_loaders(ts, q, idx) ==
    ts \o PrefetchTasks(get_prefetch_targets(q, idx))

(* ---- song-change reactor ---- *)
\* check_song_change without the comparison of line 31
check_song_change_NoCompare(cs) ==
    /\ ~rx_closed
    /\ poll_tick' = ~poll_tick
    /\ LET ts1 == IF cs # NoKey THEN spawn_cover_art_loader(tasks, cs)
                  ELSE tasks
           ts2 == spawn_prefetch_loaders(ts1, queue,
                                         find_current_index(queue, cs))
       IN /\ Len(ts2) <= MaxTasks
          /\ protocol_image' = IF cs = NoKey THEN NoArt ELSE protocol_image
          /\ tasks' = ts2
          /\ current_song_file' = cs
    /\ UNCHANGED <<entries, pending, lock, chan, rx_closed, fetches, queue>>

\* check_song_change without the clearing of lines 39-41
check_song_change_NoClear(cs) ==
    /\ ~rx_closed
    /\ poll_tick' = ~poll_tick
    /\ IF cs # current_song_file
       THEN LET ts1 == IF cs # NoKey THEN spawn_cover_art_loader(tasks, cs)
                       ELSE tasks
                ts2 == spawn_prefetch_loaders(ts1, queue,
                                              find_current_index(queue, cs))
            IN /\ Len(ts2) <= MaxTasks
               /\ tasks' = ts2
               /\ current_song_file' = cs
               /\ UNCHANGED protocol_image
       ELSE UNCHANGED <<protocol_image, tasks, current_song_file>>
    /\ UNCHANGED <<entries, pending, lock, chan, rx_closed, fetches, queue>>

\* check_song_change recording the new key only when there is a song
check_song_change_NoRecordNone(cs) ==
    /\ ~rx_closed
    /\ poll_tick' = ~poll_tick
    /\ IF cs # current_song_file
       THEN LET ts1 == IF cs # NoKey THEN spawn_cover_art_loader(tasks, cs)
                       ELSE tasks
                ts2 == spawn_prefetch_loaders(ts1, queue,
                                              find_current_index(queue, cs))
            IN /\ Len(ts2) <= MaxTasks
               /\ protocol_image' = IF cs = NoKey THEN NoArt ELSE protocol_image
               /\ tasks' = ts2
               /\ current_song_file' =
                      IF cs = NoKey THEN current_song_file ELSE cs
       ELSE UNCHANGED <<protocol_image, tasks, current_song_file>>
    /\ UNCHANGED <<entries, pending, lock, chan, rx_closed, fetches, queue>>

\* state.rs 20-54
check_song_change(cs) ==
    /\ ~rx_closed
    /\ poll_tick' = ~poll_tick
    /\ IF cs # current_song_file
       THEN LET ts1 == IF cs # NoKey THEN spawn_cover_art_loader(tasks, cs)
                       ELSE tasks
                ts2 == spawn_prefetch_loaders(ts1, queue,
                                              find_current_index(queue, cs))
            IN /\ Len(ts2) <= MaxTasks
               /\ protocol_image' = IF cs = NoKey THEN NoArt ELSE protocol_image
               /\ tasks' = ts2
               /\ current_song_file' = cs
       ELSE UNCHANGED <<protocol_image, tasks, current_song_file>>
    /\ UNCHANGED <<entries, pending, lock, chan, rx_closed, fetches, queue>>

(* ---- UI side of the result channel ---- *)
\* the main loop takes one CoverArtMessage and shows it if it is current
RecvCoverArt ==
    /\ ~rx_closed /\ chan # <<>>
    /\ chan' = Tail(chan)
    /\ protocol_image' = IF Head(chan).key = current_song_file
                         THEN Head(chan).data ELSE protocol_image
    /\ UNCHANGED <<entries, pending, lock, tasks, rx_closed, fetches,
                   current_song_file, queue, poll_tick>>

\* the main loop ends and drops the receiver
CloseRx ==
    /\ ~rx_closed
    /\ rx_closed' = TRUE
    /\ chan' = <<>>
    /\ UNCHANGED <<entries, pending, lock, tasks, fetches, current_song_file,
                   protocol_image, queue, poll_tick>>

(* ---- specification ---- *)
\* the rate reactor before its first poll (both Options None)
PwIdle ==
    /\ last_play_state = "None"
    /\ last_sample_rate = 0
    /\ rate_requests = <<>>
    /\ pw_tick = FALSE

\* the library loader before load_library is called
LibIdle ==
    /\ lib_pc = "start"
    /\ catalog = <<>>
    /\ status_probes = 0
    /\ attempts = 0
    /\ delays = <<>>
    /\ canonical = <<>>
    /\ artists = <<>>
    /\ all_albums = <<>>

\* no Library returned
NoLibrary == [artists |-> <<>>, all_albums |-> <<>>]

\* the lazy library before LazyLibrary::init is called
LazyIdle ==
    /\ lazy_pc = "uninit"
    /\ lazy = [artists |-> <<>>, all_albums |-> <<>>,
               all_albums_complete |-> FALSE]
    /\ lazy_i = 0
    /\ queried = <<>>
    /\ lazy_result = "none"
    /\ full_library = NoLibrary

CoverStart ==
    /\ entries = [k \in Keys |-> Absent]
    /\ pending = {}
    /\ lock = NoTask
    /\ tasks = <<>>
    /\ chan = <<>>
    /\ rx_closed = FALSE
    /\ fetches = [k \in Keys |-> 0]
    /\ current_song_file = NoKey
    /\ protocol_image = NoArt
    /\ poll_tick = FALSE

CoverInit ==
    /\ CoverStart
    /\ queue = [i \in 1..QueueLen |-> ((i - 1) % NumKeys) + 1]

Init == CoverInit /\ PwIdle /\ LibIdle /\ LazyIdle

Poll == \E cs \in OptKeys : check_song_change(cs)

\* the variables of the other components, which the cover subsystem
\* never touches
coverFrame == <<pwVars, libVars, lazyVars>>

Next ==
    \/ Poll /\ UNCHANGED coverFrame
    \/ \E t \in TaskIds : OD_Check(t) /\ UNCHANGED coverFrame
    \/ \E t \in TaskIds : OD_SendHit(t) /\ UNCHANGED coverFrame
    \/ \E t \in TaskIds : OD_Fetch(t) /\ UNCHANGED coverFrame
    \/ \E t \in TaskIds : OD_FetchReturn(t) /\ UNCHANGED coverFrame
    \/ \E t \in TaskIds : OD_Store(t) /\ UNCHANGED coverFrame
    \/ \E t \in TaskIds : OD_Send(t) /\ UNCHANGED coverFrame
    \/ \E t \in TaskIds : PF_Check(t) /\ UNCHANGED coverFrame
    \/ \E t \in TaskIds : PF_Fetch(t) /\ UNCHANGED coverFrame
    \/ \E t \in TaskIds : PF_FetchReturn(t) /\ UNCHANGED coverFrame
    \/ \E t \in TaskIds : PF_Store(t) /\ UNCHANGED coverFrame
    \/ RecvCoverArt /\ UNCHANGED coverFrame
    \/ CloseRx /\ UNCHANGED coverFrame

Spec == Init /\ [][Next]_allVars

TypeOK ==
    /\ entries \in [Keys -> Data \cup {Absent}]
    /\ pending \subseteq Keys
    /\ lock \in {NoTask} \cup TaskIds
    /\ Len(tasks) <= MaxTasks
    /\ Len(chan) <= ChanCap
    /\ current_song_file \in OptKeys
    /\ protocol_image \in Data

(* ---- fairness: tokio schedules every spawned task, the RwLock is fair, ---- *)
(* ---- and the main loop keeps polling and draining the channel          ---- *)
TaskStep(t) ==
    /\ t \in TaskIds
    /\ \/ OD_Check(t) \/ OD_SendHit(t) \/ OD_Fetch(t) \/ OD_FetchReturn(t)
       \/ OD_Store(t) \/ OD_Send(t)
       \/ PF_Check(t) \/ PF_Fetch(t) \/ PF_FetchReturn(t) \/ PF_Store(t)

FairSpec ==
    /\ Init /\ [][Next]_allVars
    /\ \A t \in 1..MaxTasks :
         SF_allVars(TaskStep(t) /\ UNCHANGED coverFrame)
    /\ WF_allVars(RecvCoverArt /\ UNCHANGED coverFrame)
    /\ WF_allVars(Poll /\ UNCHANGED coverFrame)

(* ---- the reactor alone, over every queue ---- *)
NumPlanKeys == 5
MaxPlanQueue == 5

\* the file keys of the planner's queues: enough for an entry with two
\* neighbours on each side, all of them different
PlanKeys == 1..NumPlanKeys

\* the planner only compares file keys for equality, so one queue stands
\* for all its renamings: the keys appear in the order 1, 2, 3, ...
FirstUseOrder(q) ==
    \A i \in 1..Len(q) :
        \/ q[i] = 1
        \/ \E j \in 1..(i - 1) : q[j] = q[i] - 1

\* every queue up to the length bound, repeated keys included
PlannerQueues ==
    {q \in UNION {[1..n -> PlanKeys] : n \in 0..MaxPlanQueue} :
        FirstUseOrder(q)}

PlannerInit ==
    /\ CoverStart /\ queue \in PlannerQueues
    /\ PwIdle /\ LibIdle /\ LazyIdle

\* one poll of the reactor, the current track being any track or none
PlannerPoll == \E cs \in PlanKeys \cup {NoKey} : check_song_change(cs)

PlannerNext == PlannerPoll /\ UNCHANGED coverFrame

PlannerSpec == PlannerInit /\ [][PlannerNext]_allVars

(* ---- sample-rate reactor ---- *)
MaxRateRequests == 2

PlayStates == {"Playing", "Paused", "Stopped"}
\* Option<PlayState>, "None" when there is no status
OptPlayStates == PlayStates \cup {"None"}

\* Option<u32>::None
NoRate == 0
SampleRates == {44100, 96000}
\* first field of a format string that is no number, as in "dsd64:2"
NotANumber == 0 - 1

\* current_song: absent, or a song whose format is absent or has the
\* given first field
PwSongs ==
    {[present |-> FALSE, has_format |-> FALSE, first_field |-> NotANumber],
     [present |-> TRUE, has_format |-> FALSE, first_field |-> NotANumber]}
    \cup {[present |-> TRUE, has_format |-> TRUE, first_field |-> f] :
              f \in SampleRates \cup {NotANumber}}

\* song.rs 107-111 with state.rs 71
sample_rate(song) ==
    IF song.present /\ song.has_format /\ song.first_field # NotANumber
    THEN song.first_field ELSE NoRate

SetRate(r) == [op |-> "set", song_rate |-> r]

ResetRate == [op |-> "reset", song_rate |-> NoRate]

\* the rate reactor switching on every Playing poll with a known rate
handle_pipewire_state_change_NoChangeTest(bit_perfect, available, status, song, supported) ==
    /\ pw_tick' = ~pw_tick
    /\ IF ~bit_perfect \/ ~available
       THEN UNCHANGED <<last_play_state, last_sample_rate, rate_requests>>
       ELSE LET rate == sample_rate(song)
                req == IF status = "Playing"
                       THEN IF rate # NoRate /\ supported
                            THEN <<SetRate(rate)>> ELSE <<>>
                       ELSE IF last_play_state \in {"Playing", "None"}
                            THEN <<ResetRate>> ELSE <<>>
            IN /\ Len(rate_requests \o req) <= MaxRateRequests
               /\ rate_requests' = rate_requests \o req
               /\ last_play_state' = status
               /\ last_sample_rate' = rate

\* the rate reactor resetting only after Playing, not after an unknown state
handle_pipewire_state_change_NoResetOnNone(bit_perfect, available, status, song, supported) ==
    /\ pw_tick' = ~pw_tick
    /\ IF ~bit_perfect \/ ~available
       THEN UNCHANGED <<last_play_state, last_sample_rate, rate_requests>>
       ELSE LET rate == sample_rate(song)
                req == IF status = "Playing"
                       THEN IF (status # last_play_state
                                  \/ rate # last_sample_rate)
                               /\ rate # NoRate /\ supported
                            THEN <<SetRate(rate)>> ELSE <<>>
                       ELSE IF last_play_state = "Playing"
                            THEN <<ResetRate>> ELSE <<>>
            IN /\ Len(rate_requests \o req) <= MaxRateRequests
               /\ rate_requests' = rate_requests \o req
               /\ last_play_state' = status
               /\ last_sample_rate' = rate

\* the reactor returning early only when both conditions fail
handle_pipewire_state_change_GuardAnd(bit_perfect, available, status, song, supported) ==
    /\ pw_tick' = ~pw_tick
    /\ IF ~bit_perfect /\ ~available
       THEN UNCHANGED <<last_play_state, last_sample_rate, rate_requests>>
       ELSE LET rate == sample_rate(song)
                req == IF status = "Playing"
                       THEN IF (status # last_play_state
                                  \/ rate # last_sample_rate)
                               /\ rate # NoRate /\ supported
                            THEN <<SetRate(rate)>> ELSE <<>>
                       ELSE IF last_play_state \in {"Playing", "None"}
                            THEN <<ResetRate>> ELSE <<>>
            IN /\ Len(rate_requests \o req) <= MaxRateRequests
               /\ rate_requests' = rate_requests \o req
               /\ last_play_state' = status
               /\ last_sample_rate' = rate

\* state.rs 58-117; supported: get_supported_rates() returned Some
handle_pipewire_state_change(bit_perfect, available, status, song, supported) ==
    /\ pw_tick' = ~pw_tick
    /\ IF ~bit_perfect \/ ~available
       THEN UNCHANGED <<last_play_state, last_sample_rate, rate_requests>>
       ELSE LET rate == sample_rate(song)
                req == IF status = "Playing"
                       THEN IF (status # last_play_state
                                  \/ rate # last_sample_rate)
                               /\ rate # NoRate /\ supported
                            THEN <<SetRate(rate)>> ELSE <<>>
                       ELSE IF last_play_state \in {"Playing", "None"}
                            THEN <<ResetRate>> ELSE <<>>
            IN /\ Len(rate_requests \o req) <= MaxRateRequests
               /\ rate_requests' = rate_requests \o req
               /\ last_play_state' = status
               /\ last_sample_rate' = rate

PwPoll ==
    \E bit_perfect, available, supported \in BOOLEAN :
        \E status \in OptPlayStates, song \in PwSongs :
            handle_pipewire_state_change(bit_perfect, available, status,
                                         song, supported)

PwInit == CoverInit /\ PwIdle /\ LibIdle /\ LazyIdle

PwNext == PwPoll /\ UNCHANGED <<vars, libVars, lazyVars>>

PwSpec == PwInit /\ [][PwNext]_allVars

(* ---- eager library loader ---- *)
MaxSongs == 3

MAX_RETRIES == 3
BASE_DELAY_MS == 1000

\* a tag the daemon did not send
NoTag == 0
\* names in byte order: "A" < "B" < "Unknown ..." < "a" < "b" < "unknown ..."
NameA == 1
NameB == 2
UnknownName == 3
Name_a == 4
Name_b == 5
Name_unknown == 6

\* str::to_lowercase on the names above
to_lowercase(n) == IF n \in {NameA, NameB, UnknownName} THEN n + 3 ELSE n

\* the songs the daemon may list, without their file
SongShapes ==
    {[artist |-> a, albumartist |-> t, album |-> al, title |-> NameB,
      disc |-> 1, track |-> 2] :
         a \in {NameB, Name_a}, t \in {NoTag, NameA}, al \in {NameB, Name_a}}
    \cup {[artist |-> NoTag, albumartist |-> NoTag, album |-> NoTag,
           title |-> NoTag, disc |-> 0, track |-> 0],
          [artist |-> NameB, albumartist |-> Name_b, album |-> NameB,
           title |-> NameB, disc |-> 1, track |-> 2],
          [artist |-> NameB, albumartist |-> NoTag, album |-> NameB,
           title |-> NameB, disc |-> 1, track |-> 1],
          [artist |-> NameB, albumartist |-> NoTag, album |-> NameB,
           title |-> NameA, disc |-> 1, track |-> 2]}

\* a catalog: every song has its own file
MakeCatalog(shapes) ==
    [i \in 1..Len(shapes) |->
        [file |-> i, artist |-> shapes[i].artist,
         albumartist |-> shapes[i].albumartist, album |-> shapes[i].album,
         title |-> shapes[i].title, disc |-> shapes[i].disc,
         track |-> shapes[i].track]]

Catalogs ==
    {MakeCatalog(shapes) :
        shapes \in UNION {[1..n -> SongShapes] : n \in 0..MaxSongs}}

\* song.rs 30-70
from_song(song) ==
    LET artist == IF song.artist = NoTag THEN UnknownName ELSE song.artist
    IN [title |-> IF song.title = NoTag THEN UnknownName ELSE song.title,
        artist |-> artist,
        album_artist |-> IF song.albumartist = NoTag THEN artist
                         ELSE song.albumartist,
        has_explicit_album_artist |-> song.albumartist # NoTag,
        album |-> IF song.album = NoTag THEN UnknownName ELSE song.album,
        file_path |-> song.file,
        disc_number |-> song.disc,
        track_number |-> song.track]

\* Ordering of tuples of equal length, as Ordering::then chains compare
LexLess(a, b) ==
    \E k \in 1..Len(a) :
        /\ \A j \in 1..(k - 1) : a[j] = b[j]
        /\ a[k] < b[k]

\* place of element i in the stable sort of a sequence with these keys
Rank(keys, i) ==
    1 + Cardinality({j \in 1..Len(keys) :
                        \/ LexLess(keys[j], keys[i])
                        \/ keys[j] = keys[i] /\ j < i})

\* slice::sort_by (stable) of seq, keys[i] being the key of seq[i]
sort_by(seq, keys) ==
    [k \in 1..Len(seq) |->
        seq[CHOOSE i \in 1..Len(seq) : Rank(keys, i) = k]]

\* the keys of a map as a sequence sorted by String::cmp
SortedNames(S) ==
    [k \in 1..Cardinality(S) |->
        CHOOSE x \in S : Cardinality({y \in S : y < x}) = k - 1]

\* song.rs 447-454: the SongInfo of every song, in catalog order
SongInfos(cat) == [i \in 1..Len(cat) |-> from_song(cat[i])]

AlbumNames(infos) == {infos[i].album : i \in 1..Len(infos)}

\* albums_by_name[album]: the album's tracks in catalog order
albums_by_name(infos, album) ==
    LET OfAlbum(t) == t.album = album IN SelectSeq(infos, OfAlbum)

\* song.rs 464-467: the album artist of the first track with an explicit tag
explicit_artist(tracks) ==
    LET tagged == {i \in 1..Len(tracks) :
                      tracks[i].has_explicit_album_artist}
    IN IF tagged = {} THEN NoTag
       ELSE tracks[CHOOSE i \in tagged : \A j \in tagged : i <= j].album_artist

\* song.rs 473-477
artist_counts(tracks) ==
    [a \in {tracks[i].album_artist : i \in 1..Len(tracks)} |->
        Cardinality({i \in 1..Len(tracks) : tracks[i].album_artist = a})]

\* the first track's artist instead of the most frequent one
most_common_FirstTrack(tracks) ==
    {tracks[1].album_artist}

\* song.rs 478-482: max_by_key over a HashMap, whose iteration order is
\* arbitrary, yields any artist of the highest count
most_common(tracks) ==
    LET counts == artist_counts(tracks)
    IN {a \in DOMAIN counts : \A b \in DOMAIN counts : counts[b] <= counts[a]}

\* resolution by frequency alone, the explicit tag ignored
resolved_artists_IgnoresTag(tracks) ==
    most_common(tracks)

\* song.rs 469-483: the artists an album can resolve to
resolved_artists(tracks) ==
    IF explicit_artist(tracks) # NoTag THEN {explicit_artist(tracks)}
    ELSE most_common(tracks)

\* song.rs 462-486: the possible canonical_album_artist maps
canonical_album_artists(infos) ==
    {c \in [AlbumNames(infos) -> {NameA, NameB, UnknownName, Name_a, Name_b}] :
        \A al \in AlbumNames(infos) :
            c[al] \in resolved_artists(albums_by_name(infos, al))}

\* a single pass: every song under its own album artist
regrouped_SinglePass(infos, canon) ==
    infos

\* song.rs 494-508: every song under the canonical artist of its album
regrouped(infos, canon) ==
    [i \in 1..Len(infos) |->
        [infos[i] EXCEPT !.album_artist = canon[infos[i].album]]]

\* the tracks sorted by disc and track number alone
sorted_tracks_NoTitle(tracks) ==
    sort_by(tracks, [i \in 1..Len(tracks) |->
                        <<tracks[i].disc_number, tracks[i].track_number>>])

\* song.rs 527-534 and 277-282
sorted_tracks(tracks) ==
    sort_by(tracks, [i \in 1..Len(tracks) |->
                        <<tracks[i].disc_number, tracks[i].track_number,
                          tracks[i].title>>])

\* the hierarchy with one track per album, the last song collected
build_artists_KeepsLast(songs) ==
    LET names == SortedNames({songs[i].album_artist : i \in 1..Len(songs)})
        OfArtist(a) == LET Test(t) == t.album_artist = a
                       IN SelectSeq(songs, Test)
        LastOf(seq) == <<seq[Len(seq)]>>
        AlbumsOf(a) ==
            LET mine == OfArtist(a)
                albums == SortedNames(AlbumNames(mine))
            IN [k \in 1..Len(albums) |->
                   [name |-> albums[k],
                    tracks |-> LastOf(albums_by_name(mine, albums[k]))]]
    IN [k \in 1..Len(names) |-> [name |-> names[k],
                                 albums |-> AlbumsOf(names[k])]]

\* song.rs 510-535
build_artists(songs) ==
    LET names == SortedNames({songs[i].album_artist : i \in 1..Len(songs)})
        OfArtist(a) == LET Test(t) == t.album_artist = a
                       IN SelectSeq(songs, Test)
        AlbumsOf(a) ==
            LET mine == OfArtist(a)
                albums == SortedNames(AlbumNames(mine))
            IN [k \in 1..Len(albums) |->
                   [name |-> albums[k],
                    tracks |-> sorted_tracks(albums_by_name(mine, albums[k]))]]
    IN [k \in 1..Len(names) |-> [name |-> names[k],
                                 albums |-> AlbumsOf(names[k])]]

RECURSIVE flat_albums(_)
\* song.rs 557-562
flat_albums(arts) ==
    IF arts = <<>> THEN <<>>
    ELSE [k \in 1..Len(Head(arts).albums) |->
             <<Head(arts).name, Head(arts).albums[k]>>]
         \o flat_albums(Tail(arts))

\* song.rs 557-569
build_all_albums(arts) ==
    LET flat == flat_albums(arts)
    IN sort_by(flat, [i \in 1..Len(flat) |->
                         <<to_lowercase(flat[i][2].name),
                           to_lowercase(flat[i][1])>>])

\* the probe whose failure does not stop the load
validate_connection_IgnoresError(ok) ==
    /\ lib_pc = "start"
    /\ status_probes' = status_probes + 1
    /\ lib_pc' = "fetching"
    /\ UNCHANGED <<catalog, attempts, delays, canonical, artists, all_albums>>

\* song.rs 433 and 578-594
validate_connection(ok) ==
    /\ lib_pc = "start"
    /\ status_probes' = status_probes + 1
    /\ lib_pc' = IF ok THEN "fetching" ELSE "probe_failed"
    /\ UNCHANGED <<catalog, attempts, delays, canonical, artists, all_albums>>

\* one attempt with a constant delay that is slept after the last failure too
load_attempt_FlatDelay(ok, songs) ==
    /\ lib_pc = "fetching"
    /\ attempts < MAX_RETRIES
    /\ attempts' = attempts + 1
    /\ IF ok
       THEN /\ catalog' = songs
            /\ lib_pc' = "loaded"
            /\ UNCHANGED delays
       ELSE /\ delays' = Append(delays, BASE_DELAY_MS)
            /\ lib_pc' = IF attempts' = MAX_RETRIES THEN "load_failed"
                         ELSE "fetching"
            /\ UNCHANGED catalog
    /\ UNCHANGED <<status_probes, canonical, artists, all_albums>>

\* song.rs 602-652: one iteration of the loop of load_songs_with_retry
load_attempt(ok, songs) ==
    /\ lib_pc = "fetching"
    /\ attempts < MAX_RETRIES
    /\ attempts' = attempts + 1
    /\ IF ok
       THEN /\ catalog' = songs
            /\ lib_pc' = "loaded"
            /\ UNCHANGED delays
       ELSE IF attempts' = MAX_RETRIES
            THEN /\ lib_pc' = "load_failed"
                 /\ UNCHANGED <<catalog, delays>>
            ELSE /\ delays' = Append(delays,
                                     BASE_DELAY_MS * 2 ^ (attempts' - 1))
                 /\ UNCHANGED <<lib_pc, catalog>>
    /\ UNCHANGED <<status_probes, canonical, artists, all_albums>>

\* song.rs 438-575: both passes, the sorts and the flattened index
build_library ==
    /\ lib_pc = "loaded"
    /\ \E canon \in canonical_album_artists(SongInfos(catalog)) :
          /\ canonical' = canon
          /\ artists' = build_artists(regrouped(SongInfos(catalog), canon))
    /\ all_albums' = build_all_albums(artists')
    /\ lib_pc' = "done"
    /\ UNCHANGED <<catalog, status_probes, attempts, delays>>

Validate == \E ok \in BOOLEAN : validate_connection(ok)

LoadOk ==
    /\ lib_pc = "fetching"
    /\ \E songs \in Catalogs : load_attempt(TRUE, songs)

LoadErr == load_attempt(FALSE, <<>>)

eagerFrame == <<vars, pwVars, lazyVars>>

EagerInit == CoverInit /\ PwIdle /\ LibIdle /\ LazyIdle

EagerNext ==
    \/ Validate /\ UNCHANGED eagerFrame
    \/ LoadOk /\ UNCHANGED eagerFrame
    \/ LoadErr /\ UNCHANGED eagerFrame
    \/ build_library /\ UNCHANGED eagerFrame

EagerSpec == EagerInit /\ [][EagerNext]_allVars

(* ---- lazy library loader ---- *)
MaxFound == 2

\* the empty tag value ""
EmptyName == 0

\* the values List(AlbumArtist) may return; the daemon lists each once
TagValues == {EmptyName, NameB, Name_a}

IsInjective(f) ==
    \A i, j \in DOMAIN f : f[i] = f[j] => i = j

ListResponses ==
    {<<"err", <<>>>>}
    \cup {<<"ok", names>> :
            names \in {l \in UNION {[1..n -> TagValues] :
                                       n \in 0..Cardinality(TagValues)} :
                          IsInjective(l)}}

\* the songs Find may return, without their file
FoundShapes ==
    {[artist |-> NameB, albumartist |-> NameB, album |-> al,
      title |-> NameB, disc |-> 1, track |-> 2] :
         al \in {NameB, Name_a, Name_b}}
    \cup {[artist |-> NameB, albumartist |-> NameB, album |-> NameB,
           title |-> NameA, disc |-> 1, track |-> 2]}

\* the order in which a HashMap yields its keys: ascending or descending
\* here, which covers every order of the keys that tie once lower-cased
HashSeeds == {"asc", "desc"}

\* the seeds that can show: both when two album names tie once lower-cased
SeedsFor(shapes) ==
    IF \E i, j \in 1..Len(shapes) :
          /\ shapes[i].album # shapes[j].album
          /\ to_lowercase(shapes[i].album) = to_lowercase(shapes[j].album)
    THEN HashSeeds ELSE {"asc"}

\* the outcomes of Find: an error, or songs and the seed of the map they are
\* grouped in
FindResponses ==
    {<<"err", <<>>, "asc">>}
    \cup UNION {{<<"ok", MakeCatalog(shapes), seed>> :
                    seed \in SeedsFor(shapes)} :
                shapes \in UNION {[1..n -> FoundShapes] : n \in 0..MaxFound}}

\* song.rs 208-216
init_artists(names) ==
    LET NonEmpty(name) == name # EmptyName
        artist_names == SelectSeq(names, NonEmpty)
        sorted == sort_by(artist_names,
                          [i \in 1..Len(artist_names) |->
                              <<to_lowercase(artist_names[i])>>])
    IN [k \in 1..Len(sorted) |->
           [name |-> sorted[k], loaded |-> FALSE, albums |-> <<>>]]

\* HashMap::into_iter over the album names
into_iter(names, seed) ==
    LET asc == SortedNames(names)
    IN IF seed = "asc" THEN asc
       ELSE [k \in 1..Len(asc) |-> asc[Len(asc) + 1 - k]]

\* song.rs 262-291
loaded_albums(songs, seed) ==
    LET infos == SongInfos(songs)
        names == into_iter(AlbumNames(infos), seed)
        albums == [k \in 1..Len(names) |->
                      [name |-> names[k],
                       tracks |-> sorted_tracks(
                                      albums_by_name(infos, names[k]))]]
    IN sort_by(albums, [k \in 1..Len(albums) |->
                           <<to_lowercase(albums[k].name)>>])

\* duplicate detection by album name alone
album_exists_AnyArtist(all, artist_name, album) ==
    \E k \in 1..Len(all) : all[k][2].name = album.name

\* song.rs 304-307
album_exists(all, artist_name, album) ==
    \E k \in 1..Len(all) :
        all[k][1] = artist_name /\ all[k][2].name = album.name

RECURSIVE push_albums(_, _, _)
\* song.rs 302-311
push_albums(all, artist_name, albums) ==
    IF albums = <<>> THEN all
    ELSE push_albums(IF album_exists(all, artist_name, Head(albums))
                     THEN all
                     ELSE Append(all, <<artist_name, Head(albums)>>),
                     artist_name, Tail(albums))

\* the flattened index left as pushed
sort_all_albums_NoSort(all) ==
    all

\* song.rs 314-319
sort_all_albums(all) ==
    sort_by(all, [i \in 1..Len(all) |->
                     <<to_lowercase(all[i][2].name),
                       to_lowercase(all[i][1])>>])

\* the index rebuilt from the new albums alone
merged_all_albums_Replace(all, artist_name, albums) ==
    sort_all_albums(push_albums(<<>>, artist_name, albums))

\* song.rs 301-319
merged_all_albums(all, artist_name, albums) ==
    sort_all_albums(push_albums(all, artist_name, albums))

\* song.rs 325
all_loaded(lazy_artists) ==
    \A k \in 1..Len(lazy_artists) : lazy_artists[k].loaded

\* the early returns, with a loaded artist queried again
load_artist_entry_NoLoadedCheck(lib, artist_index) ==
    IF artist_index >= Len(lib.artists) THEN "out_of_bounds"
    ELSE "query"

\* the early returns, with an index out of range accepted as nothing to do
load_artist_entry_NoBoundsError(lib, artist_index) ==
    IF artist_index >= Len(lib.artists) THEN "loaded"
    ELSE IF lib.artists[artist_index + 1].loaded THEN "loaded"
    ELSE "query"

\* song.rs 239-246: the early returns of load_artist
load_artist_entry(lib, artist_index) ==
    IF artist_index >= Len(lib.artists) THEN "out_of_bounds"
    ELSE IF lib.artists[artist_index + 1].loaded THEN "loaded"
    ELSE "query"

\* song.rs 262-325: the library after a successful Find
with_artist_loaded(lib, artist_index, songs, seed) ==
    LET artist_name == lib.artists[artist_index + 1].name
        albums == loaded_albums(songs, seed)
        new_artists == [lib.artists EXCEPT ![artist_index + 1] =
                           [name |-> artist_name, loaded |-> TRUE,
                            albums |-> albums]]
    IN [artists |-> new_artists,
        all_albums |-> merged_all_albums(lib.all_albums, artist_name, albums),
        all_albums_complete |-> all_loaded(new_artists)]

\* load_artist storing an artist without albums when Find fails
load_artist_outcome_ErrMarksLoaded(lib, artist_index, resp) ==
    LET entry == load_artist_entry(lib, artist_index)
    IN IF entry = "out_of_bounds"
       THEN [lib |-> lib, result |-> "err", query |-> FALSE]
       ELSE IF entry = "loaded"
       THEN [lib |-> lib, result |-> "ok", query |-> FALSE]
       ELSE IF resp[1] = "err"
       THEN [lib |-> with_artist_loaded(lib, artist_index, <<>>, "asc"),
             result |-> "err", query |-> TRUE]
       ELSE [lib |-> with_artist_loaded(lib, artist_index, resp[2], resp[3]),
             result |-> "ok", query |-> TRUE]

\* song.rs 234-328: the library, the result and whether Find was issued
load_artist_outcome(lib, artist_index, resp) ==
    LET entry == load_artist_entry(lib, artist_index)
    IN IF entry = "out_of_bounds"
       THEN [lib |-> lib, result |-> "err", query |-> FALSE]
       ELSE IF entry = "loaded"
       THEN [lib |-> lib, result |-> "ok", query |-> FALSE]
       ELSE IF resp[1] = "err"
       THEN [lib |-> lib, result |-> "err", query |-> TRUE]
       ELSE [lib |-> with_artist_loaded(lib, artist_index, resp[2], resp[3]),
             result |-> "ok", query |-> TRUE]

\* song.rs 197-230
lazy_init(resp) ==
    /\ lazy_pc = "uninit"
    /\ IF resp[1] = "err"
       THEN /\ lazy_pc' = "init_failed"
            /\ lazy_result' = "err"
            /\ UNCHANGED lazy
       ELSE /\ lazy_pc' = "ready"
            /\ lazy_result' = "ok"
            /\ lazy' = [artists |-> init_artists(resp[2]),
                        all_albums |-> <<>>,
                        all_albums_complete |-> FALSE]
    /\ UNCHANGED <<lazy_i, queried, full_library>>

\* song.rs 234-328
load_artist(artist_index, resp) ==
    /\ lazy_pc = "ready"
    /\ LET out == load_artist_outcome(lazy, artist_index, resp)
       IN /\ lazy' = out.lib
          /\ lazy_result' = out.result
          /\ queried' = IF out.query THEN <<artist_index>> ELSE <<>>
    /\ full_library' = NoLibrary
    /\ UNCHANGED <<lazy_pc, lazy_i>>

\* song.rs 394-400: preload_all_albums up to its loop
preload_all_albums ==
    /\ lazy_pc = "ready"
    /\ queried' = <<>>
    /\ full_library' = NoLibrary
    /\ lazy_i' = 0
    /\ IF lazy.all_albums_complete
       THEN /\ lazy_result' = "ok"
            /\ UNCHANGED lazy_pc
       ELSE /\ lazy_pc' = "preloading"
            /\ lazy_result' = "none"
    /\ UNCHANGED lazy

\* song.rs 357-360: to_full_library up to its loop
to_full_library ==
    /\ lazy_pc = "ready"
    /\ queried' = <<>>
    /\ full_library' = NoLibrary
    /\ lazy_i' = 0
    /\ lazy_pc' = "converting"
    /\ lazy_result' = "none"
    /\ UNCHANGED lazy

\* the first index from i on whose artist is not loaded, or the length
next_unloaded(lazy_artists, i) ==
    LET rest == {k \in i..(Len(lazy_artists) - 1) :
                    ~lazy_artists[k + 1].loaded}
    IN IF rest = {} THEN Len(lazy_artists)
       ELSE CHOOSE k \in rest : \A m \in rest : k <= m

\* song.rs 362-366 and 403-407: the loop up to and with its next load_artist
load_next(resp) ==
    /\ lazy_pc \in {"preloading", "converting"}
    /\ next_unloaded(lazy.artists, lazy_i) < Len(lazy.artists)
    /\ LET i == next_unloaded(lazy.artists, lazy_i)
           out == load_artist_outcome(lazy, i, resp)
       IN /\ lazy' = out.lib
          /\ queried' = Append(queried, i)
          /\ IF out.result = "err"
             THEN /\ lazy_result' = "err"
                  /\ lazy_pc' = "ready"
                  /\ UNCHANGED lazy_i
             ELSE /\ lazy_i' = i + 1
                  /\ UNCHANGED <<lazy_result, lazy_pc>>
    /\ UNCHANGED full_library

\* the loop is over, the Library returned without its flattened index
finish_loop_EmptyIndex ==
    /\ lazy_pc \in {"preloading", "converting"}
    /\ next_unloaded(lazy.artists, lazy_i) = Len(lazy.artists)
    /\ full_library' =
          IF lazy_pc = "converting"
          THEN [artists |-> [k \in 1..Len(lazy.artists) |->
                                [name |-> lazy.artists[k].name,
                                 albums |-> lazy.artists[k].albums]],
                all_albums |-> <<>>]
          ELSE NoLibrary
    /\ lazy_result' = "ok"
    /\ lazy_pc' = "ready"
    /\ UNCHANGED <<lazy, lazy_i, queried>>

\* song.rs 368-390 and 409-416: the loop is over
finish_loop ==
    /\ lazy_pc \in {"preloading", "converting"}
    /\ next_unloaded(lazy.artists, lazy_i) = Len(lazy.artists)
    /\ full_library' =
          IF lazy_pc = "converting"
          THEN [artists |-> [k \in 1..Len(lazy.artists) |->
                                [name |-> lazy.artists[k].name,
                                 albums |-> lazy.artists[k].albums]],
                all_albums |-> lazy.all_albums]
          ELSE NoLibrary
    /\ lazy_result' = "ok"
    /\ lazy_pc' = "ready"
    /\ UNCHANGED <<lazy, lazy_i, queried>>

LazyInit == \E resp \in ListResponses : lazy_init(resp)

\* the indices a caller passes: every artist and one past the last
LoadArtist ==
    /\ lazy_pc = "ready"
    /\ \E artist_index \in 0..Len(lazy.artists) :
          IF load_artist_entry(lazy, artist_index) = "query"
          THEN \E resp \in FindResponses : load_artist(artist_index, resp)
          ELSE load_artist(artist_index, <<"err", <<>>, "asc">>)

LoadNext ==
    /\ lazy_pc \in {"preloading", "converting"}
    /\ \E resp \in FindResponses : load_next(resp)

lazyFrame == <<vars, pwVars, libVars>>

\* the application builds its library with one of the two strategies
LibraryInit == CoverInit /\ PwIdle /\ LibIdle /\ LazyIdle

LibraryNext ==
    \/ lazy_pc = "uninit" /\ Validate /\ UNCHANGED eagerFrame
    \/ LoadOk /\ UNCHANGED eagerFrame
    \/ LoadErr /\ UNCHANGED eagerFrame
    \/ build_library /\ UNCHANGED eagerFrame
    \/ lib_pc = "start" /\ LazyInit /\ UNCHANGED lazyFrame
    \/ LoadArtist /\ UNCHANGED lazyFrame
    \/ preload_all_albums /\ UNCHANGED lazyFrame
    \/ to_full_library /\ UNCHANGED lazyFrame
    \/ LoadNext /\ UNCHANGED lazyFrame
    \/ finish_loop /\ UNCHANGED lazyFrame

LibrarySpec == LibraryInit /\ [][LibraryNext]_allVars

\* the lazy strategy alone
LazyNext ==
    \/ LazyInit /\ UNCHANGED lazyFrame
    \/ LoadArtist /\ UNCHANGED lazyFrame
    \/ preload_all_albums /\ UNCHANGED lazyFrame
    \/ to_full_library /\ UNCHANGED lazyFrame
    \/ LoadNext /\ UNCHANGED lazyFrame
    \/ finish_loop /\ UNCHANGED lazyFrame

LazySpec == LibraryInit /\ [][LazyNext]_allVars

(* ---- helpers for the properties ---- *)
\* the task is between its mark_pending and its insert
InFlight(t) == tasks[t].pc \in {"fetch", "await", "store"}

InFlightTasks(k) == {t \in TaskIds : tasks[t].key = k /\ InFlight(t)}

\* the task has left its current program point in this step
Moves(t) == tasks'[t].pc # tasks[t].pc

\* a Loaded message tagged k has been sent on the result channel
Delivered(k) == \E t \in TaskIds : tasks[t].key = k /\ tasks[t].sent

(* ---- C1 ---- *)
\* C1: at most one outbound album-art fetch is ever issued per key, and a
\* task gets to issue a fetch only through a check step in which the key was
\* neither cached nor pending and which marked the key pending.
C1_SingleFetchPerKey ==
    /\ [](\A k \in Keys : fetches[k] <= 1)
    /\ [][/\ \A t \in TaskIds :
               (tasks[t].pc = "check" /\ tasks'[t].pc = "fetch") =>
                   /\ ~contains(entries, tasks[t].key)
                   /\ ~is_pending(pending, tasks[t].key)
                   /\ is_pending(pending', tasks[t].key)
          /\ \A k \in Keys :
               fetches'[k] # fetches[k] =>
                   /\ fetches'[k] = fetches[k] + 1
                   /\ \E t \in TaskIds :
                        /\ tasks[t].key = k /\ tasks[t].path = "miss"
                        /\ tasks[t].pc = "fetch" /\ tasks'[t].pc = "await"]_vars

\* an on-demand and a prefetch task for one key have both finished and
\* exactly one of them fetched
C1_Witness ==
    \E t1, t2 \in TaskIds :
        /\ tasks[t1].kind = "ondemand" /\ tasks[t2].kind = "prefetch"
        /\ tasks[t1].key = tasks[t2].key
        /\ tasks[t1].pc = "done" /\ tasks[t2].pc = "done"
        /\ "miss" \in {tasks[t1].path, tasks[t2].path}
        /\ fetches[tasks[t1].key] = 1

(* ---- C2 ---- *)
\* C2: once a loader task (on-demand or prefetch) has done mark_pending(k)
\* and then insert(k, v), get(k) returns the entry holding v and
\* is_pending(k) is false, in every later state.
C2_MarkInsertGet ==
    \A t \in TaskIds :
        (tasks[t].path = "miss" /\ tasks[t].pc \in {"send", "done"}) =>
            /\ get(entries, tasks[t].key) = tasks[t].data
            /\ ~is_pending(pending, tasks[t].key)

\* both kinds of loader have completed a mark/insert pair, one with bytes
C2_Witness ==
    \E t1, t2 \in TaskIds :
        /\ tasks[t1].kind = "ondemand" /\ tasks[t2].kind = "prefetch"
        /\ tasks[t1].path = "miss" /\ tasks[t2].path = "miss"
        /\ tasks[t1].pc = "done" /\ tasks[t2].pc = "done"
        /\ tasks[t1].data # NoArt
        /\ get(entries, tasks[t1].key) = tasks[t1].data

(* ---- C3 ---- *)
\* C3: no key is at once in the entry map and in the pending set.
C3_EntryPendingDisjoint ==
    \A k \in Keys : ~(contains(entries, k) /\ is_pending(pending, k))

\* one key is cached while another is pending, and a prefetch task has met
\* the cached key
C3_Witness ==
    \E k1, k2 \in Keys :
        /\ contains(entries, k1) /\ is_pending(pending, k2)
        /\ \E t \in TaskIds :
             /\ tasks[t].kind = "prefetch" /\ tasks[t].key = k1
             /\ tasks[t].path = "hit"

(* ---- C4 ---- *)
\* C4: a key is pending exactly when one task is between its mark_pending
\* and its insert for that key, and there is never more than one such task.
C4_PendingIffOneInFlight ==
    \A k \in Keys :
        /\ Cardinality(InFlightTasks(k)) <= 1
        /\ is_pending(pending, k) <=> Cardinality(InFlightTasks(k)) = 1

\* a key is pending with its task in flight while a second task for the same
\* key has been turned away
C4_Witness ==
    \E t1, t2 \in TaskIds :
        /\ t1 # t2 /\ tasks[t1].key = tasks[t2].key
        /\ InFlight(t1) /\ is_pending(pending, tasks[t1].key)
        /\ tasks[t2].path = "pending"

(* ---- C5 ---- *)
\* C5: an on-demand load that finds its key cached (bytes or "no art") takes
\* the hit path, sends exactly the cached value tagged with the key when the
\* receiver is open, and issues no fetch; no fetch is ever issued for a key
\* that has an entry, so a failed fetch is not retried.
C5_HitDeliversCached ==
    [][/\ \A t \in TaskIds :
            /\ (tasks[t].kind = "ondemand" /\ tasks[t].pc = "check"
                  /\ contains(entries, tasks[t].key) /\ Moves(t)) =>
                   /\ tasks'[t].pc = "send_hit"
                   /\ UNCHANGED <<fetches, chan, entries, pending>>
            /\ (tasks[t].pc = "send_hit" /\ Moves(t)) =>
                   /\ tasks'[t].pc = "done"
                   /\ UNCHANGED <<fetches, entries, pending>>
                   /\ IF rx_closed THEN chan' = chan
                      ELSE chan' = Append(chan,
                                     [data |-> get(entries, tasks[t].key),
                                      key |-> tasks[t].key])
       /\ \A k \in Keys : contains(entries, k) => fetches'[k] = fetches[k]]_vars

\* a cached negative result has been delivered by a later on-demand load of
\* the same key, after the single fetch of that key
C5_Witness ==
    \E t \in TaskIds :
        /\ tasks[t].kind = "ondemand" /\ tasks[t].path = "hit"
        /\ tasks[t].pc = "done" /\ tasks[t].sent
        /\ tasks[t].data = NoArt /\ get(entries, tasks[t].key) = NoArt
        /\ fetches[tasks[t].key] = 1

(* ---- C6 ---- *)
\* C6: an on-demand load that finds its key not cached but pending finishes
\* in that step without sending, without fetching and without changing the
\* entry map or the pending set, and never sends afterwards.
C6_PendingIsNoOp ==
    /\ [][\A t \in TaskIds :
            (tasks[t].kind = "ondemand" /\ tasks[t].pc = "check"
               /\ ~contains(entries, tasks[t].key)
               /\ is_pending(pending, tasks[t].key) /\ Moves(t)) =>
                /\ tasks'[t].pc = "done" /\ tasks'[t].path = "pending"
                /\ UNCHANGED <<chan, fetches, entries, pending, lock>>]_vars
    /\ [](\A t \in TaskIds :
            tasks[t].path = "pending" =>
                tasks[t].pc = "done" /\ ~tasks[t].sent)

\* an on-demand load has returned on a pending key
C6_Witness ==
    \E t \in TaskIds :
        /\ tasks[t].kind = "ondemand" /\ tasks[t].path = "pending"
        /\ tasks[t].pc = "done"

(* ---- C7 ---- *)
\* C7: when an on-demand load for the current track k has returned on a
\* pending key and nothing tagged k has been delivered, then, as long as k
\* stays the current track and the receiver is open, a message tagged k is
\* eventually sent on the result channel.
SkippedUndelivered(k) ==
    /\ current_song_file = k /\ ~rx_closed /\ ~Delivered(k)
    /\ \E t \in TaskIds :
         /\ tasks[t].kind = "ondemand" /\ tasks[t].key = k
         /\ tasks[t].path = "pending"

C7_RetriggerDelivers ==
    \A k \in Keys :
        SkippedUndelivered(k) ~>
            (Delivered(k) \/ current_song_file # k \/ rx_closed)

(* ---- C8 ---- *)
\* C8: no step of a prefetch task changes the result channel or the
\* displayed image; its check step either finishes the task leaving the
\* cache alone (key cached or pending) or marks the key pending, and the
\* task then fetches once and inserts its result.
C8_PrefetchNeverSends ==
    /\ [][\A t \in TaskIds :
            (tasks[t].kind = "prefetch" /\ tasks'[t] # tasks[t]) =>
                /\ UNCHANGED <<chan, protocol_image, current_song_file>>
                /\ ~tasks'[t].sent
                /\ (tasks[t].pc = "check"
                      /\ (contains(entries, tasks[t].key)
                            \/ is_pending(pending, tasks[t].key))) =>
                       /\ tasks'[t].pc = "done"
                       /\ UNCHANGED <<entries, pending, fetches>>
                /\ (tasks[t].pc = "check"
                      /\ ~contains(entries, tasks[t].key)
                      /\ ~is_pending(pending, tasks[t].key)) =>
                       /\ is_pending(pending', tasks[t].key)
                       /\ UNCHANGED <<entries, fetches>>
                /\ tasks[t].pc = "store" =>
                       /\ get(entries', tasks[t].key) = tasks[t].data
                       /\ fetches[tasks[t].key] = 1]_vars
    /\ [](\A t \in TaskIds : tasks[t].kind = "prefetch" => ~tasks[t].sent)

\* a prefetch has fetched and stored bytes, and nothing was ever sent
C8_Witness ==
    \E t \in TaskIds :
        /\ tasks[t].kind = "prefetch" /\ tasks[t].path = "miss"
        /\ tasks[t].pc = "done" /\ tasks[t].data # NoArt
        /\ get(entries, tasks[t].key) = tasks[t].data
        /\ chan = <<>> /\ \A u \in TaskIds : ~tasks[u].sent

(* ---- C9 ---- *)
\* C9: with the receiver closed, an on-demand load that fetched has its
\* result in the cache and its key not pending from its insert on, and its
\* failed send ends the task normally.
C9_ClosedReceiverStillStores ==
    \A t \in TaskIds :
        (rx_closed /\ tasks[t].kind = "ondemand" /\ tasks[t].path = "miss"
           /\ ~InFlight(t)) =>
            /\ tasks[t].pc \in {"send", "done"}
            /\ get(entries, tasks[t].key) = tasks[t].data
            /\ ~is_pending(pending, tasks[t].key)

\* the receiver was closed before the fetch returned; the task has stored
\* bytes, failed to send and finished
C9_Witness ==
    \E t \in TaskIds :
        /\ rx_closed /\ tasks[t].kind = "ondemand" /\ tasks[t].path = "miss"
        /\ tasks[t].pc = "done" /\ ~tasks[t].sent
        /\ tasks[t].data # NoArt
        /\ get(entries, tasks[t].key) = tasks[t].data

(* ---- C10 ---- *)
\* C10: a call of check_song_change whose current-track key equals the
\* last-seen key (none included) spawns no task and leaves the displayed
\* image and the last-seen key unchanged.
C10_SameKeyIsNoOp ==
    [][\A cs \in OptKeys :
          (cs = current_song_file /\ check_song_change(cs)) =>
              UNCHANGED <<tasks, protocol_image, current_song_file,
                          entries, pending, chan, fetches>>]_vars

\* check_song_change has been called a second time with the key it recorded
\* at the first call: two calls, one spawn
C10_Witness ==
    /\ current_song_file # NoKey
    /\ poll_tick = FALSE
    /\ Len(tasks) = Len(spawn_prefetch_loaders(
                          spawn_cover_art_loader(<<>>, current_song_file),
                          queue,
                          find_current_index(queue, current_song_file)))

(* ---- C11 ---- *)
\* the tasks of a given kind spawned by this step
Spawned(kind) ==
    {i \in (Len(tasks) + 1)..Len(tasks') : tasks'[i].kind = kind}

\* C11: a call of check_song_change that sees a changed key clears the
\* displayed image and spawns no on-demand loader when the new track is
\* none, and otherwise spawns exactly one on-demand loader, for the new key,
\* and leaves the displayed image as it is.
C11_ChangeSpawnsOneLoader ==
    [][\A cs \in OptKeys :
          (cs # current_song_file /\ check_song_change(cs)) =>
              IF cs = NoKey
              THEN /\ protocol_image' = NoArt
                   /\ Spawned("ondemand") = {}
              ELSE /\ Cardinality(Spawned("ondemand")) = 1
                   /\ \A i \in Spawned("ondemand") :
                        tasks'[i] = NewTask("ondemand", cs)
                   /\ protocol_image' = protocol_image]_vars

\* after a change to a key whose art was delivered and received, the
\* reactor has seen a change to none: image cleared, loaders not added
C11_Witness ==
    /\ current_song_file = NoKey /\ protocol_image = NoArt
    /\ chan = <<>>
    /\ Cardinality({t \in TaskIds : tasks[t].kind = "ondemand"}) = 1
    /\ \E t \in TaskIds :
         /\ tasks[t].kind = "ondemand" /\ tasks[t].sent
         /\ tasks[t].data # NoArt

(* ---- C12 ---- *)
\* C12: after every call of check_song_change the last-seen key equals the
\* key of the current track passed to the call (none for no track).
C12_LastSeenIsPolledKey ==
    [][\A cs \in OptKeys :
          check_song_change(cs) => current_song_file' = cs]_vars

\* two different keys have been polled in turn; the last-seen key is the one
\* of the latest on-demand loader
C12_Witness ==
    /\ current_song_file # NoKey
    /\ \E t \in TaskIds :
         /\ tasks[t].kind = "ondemand" /\ tasks[t].key # current_song_file
    /\ \E t \in TaskIds :
         /\ tasks[t].kind = "ondemand" /\ tasks[t].key = current_song_file
         /\ \A u \in TaskIds : (u > t) => tasks[u].kind = "prefetch"

(* ---- C13 ---- *)
\* the keys of the prefetch loaders spawned by this step
SpawnedPrefetchKeys == {tasks'[i].key : i \in Spawned("prefetch")}

\* C13: for every queue and every current index, the prefetch loaders
\* spawned on a song change are exactly one per key of the entries right
\* before and right after the current index, the key of the current track
\* left out: at most two loaders, no two for one key, none for an entry
\* further away and none for the current track.
C13_PrefetchWindow ==
    [][\A cs \in PlanKeys :
          (/\ cs # current_song_file
           /\ find_current_index(queue, cs) # NoIndex
           /\ check_song_change(cs)) =>
              LET idx == find_current_index(queue, cs)
                  adjacent == {queue[j] : j \in {idx, idx + 2}
                                              \cap (1..Len(queue))}
              IN /\ queue[idx + 1] = cs
                 /\ SpawnedPrefetchKeys = adjacent \ {cs}
                 /\ cs \notin SpawnedPrefetchKeys
                 /\ Cardinality(Spawned("prefetch")) <= 2
                 /\ Cardinality(Spawned("prefetch"))
                       = Cardinality(SpawnedPrefetchKeys)]_vars

\* the queue A, B, C, D, E with C current: the on-demand loader for C and
\* two prefetch loaders, for D and for B
C13_Witness ==
    /\ queue = <<1, 2, 3, 4, 5>>
    /\ current_song_file = 3
    /\ Len(tasks) = 3
    /\ tasks[1] = NewTask("ondemand", 3)
    /\ {tasks[2], tasks[3]} = {NewTask("prefetch", 2), NewTask("prefetch", 4)}

(* ---- C14 ---- *)
\* the original statement of C14: on an enabled poll that observes Playing,
\* a rate switch is issued exactly when (the last play state is not Playing
\* or the sample rate differs from the last one) and the rate is known.
C14_SwitchIffChangedAndKnown ==
    [][\A available, supported \in BOOLEAN :
        \A song \in PwSongs :
          handle_pipewire_state_change(TRUE, available, "Playing", song,
                                       supported) /\ available =>
              IF (last_play_state # "Playing"
                    \/ sample_rate(song) # last_sample_rate)
                 /\ sample_rate(song) # NoRate
              THEN rate_requests' =
                       Append(rate_requests, SetRate(sample_rate(song)))
              ELSE rate_requests' = rate_requests]_pwVars

\* C14 (amended): on an enabled poll that observes Playing, a rate switch is
\* issued exactly when (the last play state is not Playing or the sample
\* rate differs from the last one), the rate is known and the supported-rate
\* set is available; otherwise the poll issues no request.
C14_SwitchIffChangedKnownSupported ==
    [][\A available, supported \in BOOLEAN :
        \A song \in PwSongs :
          handle_pipewire_state_change(TRUE, available, "Playing", song,
                                       supported) /\ available =>
              IF (last_play_state # "Playing"
                    \/ sample_rate(song) # last_sample_rate)
                 /\ sample_rate(song) # NoRate /\ supported
              THEN rate_requests' =
                       Append(rate_requests, SetRate(sample_rate(song)))
              ELSE rate_requests' = rate_requests]_pwVars

\* two polls, the last observing Playing at the rate already recorded: one
\* switch in all
C14_Witness ==
    /\ last_play_state = "Playing" /\ last_sample_rate \in SampleRates
    /\ pw_tick = FALSE
    /\ rate_requests = <<SetRate(last_sample_rate)>>

(* ---- C15 ---- *)
\* C15: on an enabled poll that observes Paused, Stopped or no status, a
\* rate reset is issued exactly when the last play state was Playing or
\* unknown, and nothing else is issued.
C15_ResetIffWasPlayingOrUnknown ==
    [][\A available, supported \in BOOLEAN :
        \A song \in PwSongs, status \in OptPlayStates \ {"Playing"} :
          handle_pipewire_state_change(TRUE, available, status, song,
                                       supported) /\ available =>
              IF last_play_state \in {"Playing", "None"}
              THEN rate_requests' = Append(rate_requests, ResetRate)
              ELSE rate_requests' = rate_requests]_pwVars

\* a switch on Playing, a reset on the poll that left Playing, and a further
\* non-playing poll that issued nothing
C15_Witness ==
    /\ last_play_state \in {"Paused", "Stopped"}
    /\ pw_tick = TRUE
    /\ Len(rate_requests) = 2
    /\ rate_requests[1].op = "set" /\ rate_requests[2] = ResetRate

(* ---- helpers for the library properties ---- *)
\* the positions <<artist, album, track>> of the returned hierarchy
TrackSlots ==
    UNION {UNION {{<<a, b, t>> :
                      t \in 1..Len(artists[a].albums[b].tracks)} :
                  b \in 1..Len(artists[a].albums)} :
           a \in 1..Len(artists)}

\* where the song of file f was placed: <<artist, album, album-artist field>>
Placements(f) ==
    {<<artists[s[1]].name, artists[s[1]].albums[s[2]].name,
       artists[s[1]].albums[s[2]].tracks[s[3]].album_artist>> :
        s \in {x \in TrackSlots :
                  artists[x[1]].albums[x[2]].tracks[x[3]].file_path = f}}

\* the tracks of an album of the fetched catalog, in catalog order
CatalogAlbum(al) == albums_by_name(SongInfos(catalog), al)

CatalogAlbums == AlbumNames(SongInfos(catalog))

Tagged(tracks) ==
    {i \in 1..Len(tracks) : tracks[i].has_explicit_album_artist}

\* how many tracks of the album name artist x
Frequency(tracks, x) ==
    Cardinality({i \in 1..Len(tracks) : tracks[i].artist = x})

TrackArtists(tracks) == {tracks[i].artist : i \in 1..Len(tracks)}

\* the track-artists of the highest frequency
TopArtists(tracks) ==
    {x \in TrackArtists(tracks) :
        \A y \in TrackArtists(tracks) :
            Frequency(tracks, y) <= Frequency(tracks, x)}

(* ---- C16 ---- *)
\* C16: load_songs_with_retry makes at most 3 attempts; it ends in the
\* terminal error only after 3 failed attempts; the delays slept are 1000 ms
\* doubled per attempt, strictly increasing, one after every failed attempt
\* but the last.
C16_BoundedRetryWithBackoff ==
    /\ attempts <= 3
    /\ lib_pc = "load_failed" => attempts = 3 /\ delays = <<1000, 2000>>
    /\ \A i \in 1..Len(delays) : delays[i] = 1000 * 2 ^ (i - 1)
    /\ \A i \in 1..(Len(delays) - 1) : delays[i] < delays[i + 1]
    /\ Len(delays) <= 2
    /\ lib_pc = "fetching" => Len(delays) = attempts
    /\ lib_pc \in {"loaded", "done"} => Len(delays) = attempts - 1

\* three failed attempts and the terminal error
C16_Witness ==
    lib_pc = "load_failed" /\ attempts = 3 /\ Len(delays) = 2

(* ---- C17 ---- *)
\* C17: load_library probes the status first; a failed probe ends the load
\* in an error with no catalog fetch attempt and no delay, and nothing is
\* done after it.
C17_ProbeFailsFast ==
    /\ [][\A ok \in BOOLEAN :
            validate_connection(ok) /\ ~ok => lib_pc' = "probe_failed"]_libVars
    /\ [](attempts > 0 => status_probes = 1 /\ lib_pc # "probe_failed")
    /\ [](lib_pc = "probe_failed" =>
            attempts = 0 /\ delays = <<>> /\ catalog = <<>>)
    /\ [][lib_pc = "probe_failed" => UNCHANGED libVars]_libVars

\* the probe failed
C17_Witness ==
    lib_pc = "probe_failed" /\ status_probes = 1 /\ attempts = 0

(* ---- C18 ---- *)
\* C18: for every album of the catalog with at least one explicitly tagged
\* track, every track of the album, tagged or not, is placed under the
\* explicit album artist (the tag of the first tagged track in catalog
\* order) in an album of that name, with its album-artist field set to it.
C18_ExplicitTagWins ==
    lib_pc = "done" =>
        \A al \in CatalogAlbums :
            LET tracks == CatalogAlbum(al)
                tagged == Tagged(tracks)
            IN tagged # {} =>
                  LET first == CHOOSE i \in tagged : \A j \in tagged : i <= j
                      z == tracks[first].album_artist
                  IN \A i \in 1..Len(tracks) :
                        Placements(tracks[i].file_path) = {<<z, al, z>>}

\* an album with a track tagged Z and an untagged track of another artist,
\* both placed under Z
C18_Witness ==
    /\ lib_pc = "done"
    /\ \E al \in CatalogAlbums :
          LET tracks == CatalogAlbum(al)
          IN \E i, j \in 1..Len(tracks) :
                /\ tracks[i].has_explicit_album_artist
                /\ ~tracks[j].has_explicit_album_artist
                /\ tracks[j].artist # tracks[i].album_artist
                /\ Placements(tracks[j].file_path)
                     = {<<tracks[i].album_artist, al, tracks[i].album_artist>>}

(* ---- C19 ---- *)
\* C19: for every album of the catalog without an explicitly tagged track
\* in which one track-artist is strictly more frequent than every other,
\* every track of the album is placed under that artist.
C19_MajorityArtistWins ==
    lib_pc = "done" =>
        \A al \in CatalogAlbums :
            LET tracks == CatalogAlbum(al)
            IN \A x \in TrackArtists(tracks) :
                  (Tagged(tracks) = {} /\ TopArtists(tracks) = {x}) =>
                      \A i \in 1..Len(tracks) :
                          Placements(tracks[i].file_path) = {<<x, al, x>>}

\* an untagged album whose first track is of the minority artist, placed
\* under the majority artist
C19_Witness ==
    /\ lib_pc = "done"
    /\ \E al \in CatalogAlbums :
          LET tracks == CatalogAlbum(al)
          IN /\ Tagged(tracks) = {}
             /\ Len(tracks) = 3
             /\ tracks[2].artist = tracks[3].artist
             /\ tracks[1].artist # tracks[2].artist
             /\ Placements(tracks[1].file_path)
                  = {<<tracks[2].artist, al, tracks[2].artist>>}

(* ---- C20 ---- *)
\* C20: for every album of the catalog without an explicitly tagged track
\* in which two or more track-artists tie for the highest frequency, the
\* canonical artist is the lexicographically smallest of the tied artists
\* (and so the same in every run on the catalog).
C20_TieBrokenByName ==
    lib_pc = "done" =>
        \A al \in CatalogAlbums :
            LET tracks == CatalogAlbum(al)
                top == TopArtists(tracks)
            IN (Tagged(tracks) = {} /\ Cardinality(top) >= 2) =>
                  canonical[al] = CHOOSE x \in top : \A y \in top : x <= y

(* ---- C21 ---- *)
\* the positions <<artist, album>> of the returned hierarchy that hold an
\* album of this name
AlbumHolders(al) ==
    {s \in UNION {{<<a, b>> : b \in 1..Len(artists[a].albums)} :
                  a \in 1..Len(artists)} :
        artists[s[1]].albums[s[2]].name = al}

\* C21: in the returned Library every album name of the catalog is held by
\* exactly one artist, in one album, and every track of that album has its
\* album-artist field equal to that artist's name.
C21_NoFragmentedAlbum ==
    lib_pc = "done" =>
        \A al \in CatalogAlbums :
            /\ Cardinality(AlbumHolders(al)) = 1
            /\ \A s \in AlbumHolders(al) :
                  \A t \in 1..Len(artists[s[1]].albums[s[2]].tracks) :
                      artists[s[1]].albums[s[2]].tracks[t].album_artist
                          = artists[s[1]].name

\* an album whose tracks name different album artists on their own, held by
\* one artist
C21_Witness ==
    /\ lib_pc = "done"
    /\ \E al \in CatalogAlbums :
          /\ \E i, j \in 1..Len(CatalogAlbum(al)) :
                CatalogAlbum(al)[i].album_artist
                    # CatalogAlbum(al)[j].album_artist
          /\ Cardinality(AlbumHolders(al)) = 1

(* ---- helpers for the properties of both strategies ---- *)
\* the track sequences of the albums of the eager Library
EagerAlbumTracks ==
    {artists[s[1]].albums[s[2]].tracks :
        s \in UNION {{<<a, b>> : b \in 1..Len(artists[a].albums)} :
                     a \in 1..Len(artists)}}

\* the track sequences of the albums stored on the lazy artists
LazyAlbumTracks ==
    {lazy.artists[s[1]].albums[s[2]].tracks :
        s \in UNION {{<<a, b>> : b \in 1..Len(lazy.artists[a].albums)} :
                     a \in 1..Len(lazy.artists)}}

TrackKey(t) == <<t.disc_number, t.track_number, t.title>>

\* ascending by (disc number, track number, title)
TracksAscending(tr) ==
    \A i \in 1..(Len(tr) - 1) :
        LexLess(TrackKey(tr[i]), TrackKey(tr[i + 1]))
            \/ TrackKey(tr[i]) = TrackKey(tr[i + 1])

\* the rearrangements of a sequence
Rearrangements(tr) ==
    {[i \in 1..Len(tr) |-> tr[p[i]]] :
        p \in {q \in [1..Len(tr) -> 1..Len(tr)] : IsInjective(q)}}

DistinctKeys(tr) ==
    \A i, j \in 1..Len(tr) : TrackKey(tr[i]) = TrackKey(tr[j]) => i = j

(* ---- C22 ---- *)
\* the original statement of C22: in every album of either strategy the
\* tracks are ascending by (disc number, track number, title), and sorting
\* any rearrangement of the album's tracks gives the same order.
C22_SortedForEveryPermutation ==
    \A tr \in EagerAlbumTracks \cup LazyAlbumTracks :
        /\ TracksAscending(tr)
        /\ \A input \in Rearrangements(tr) : sorted_tracks(input) = tr

\* C22 (amended): in every album of either strategy the tracks are
\* ascending by (disc number, track number, title); sorting any
\* rearrangement of the album's tracks gives the same order when no two
\* tracks agree on all three; tracks that agree on all three stay in the
\* order in which the daemon listed them.
C22_SortedStable ==
    \A tr \in EagerAlbumTracks \cup LazyAlbumTracks :
        /\ TracksAscending(tr)
        /\ DistinctKeys(tr) =>
              \A input \in Rearrangements(tr) : sorted_tracks(input) = tr
        /\ \A i, j \in 1..Len(tr) :
              (i < j /\ TrackKey(tr[i]) = TrackKey(tr[j])) =>
                  tr[i].file_path < tr[j].file_path

\* a lazily loaded album whose tracks the daemon listed in another order
C22_Witness ==
    \E tr \in LazyAlbumTracks :
        /\ DistinctKeys(tr)
        /\ \E i, j \in 1..Len(tr) :
              i < j /\ tr[i].file_path > tr[j].file_path

(* ---- C23 ---- *)
\* non-decreasing lower-cased names
AscendingLowercase(names) ==
    \A i \in 1..(Len(names) - 1) :
        to_lowercase(names[i]) <= to_lowercase(names[i + 1])

AlbumNamesOf(artist) ==
    [k \in 1..Len(artist.albums) |-> artist.albums[k].name]

\* C23: the albums of every artist of the eager Library and of every lazy
\* artist are ordered ascending by lower-cased album name.
C23_AlbumsCaseInsensitive ==
    /\ \A a \in 1..Len(artists) : AscendingLowercase(AlbumNamesOf(artists[a]))
    /\ \A a \in 1..Len(lazy.artists) :
          AscendingLowercase(AlbumNamesOf(lazy.artists[a]))

(* ---- C24 ---- *)
\* C24: the artists of the eager Library and the artists of the LazyLibrary
\* are each ordered ascending by lower-cased artist name.
C24_ArtistsCaseInsensitive ==
    /\ AscendingLowercase([k \in 1..Len(artists) |-> artists[k].name])
    /\ AscendingLowercase([k \in 1..Len(lazy.artists) |->
                              lazy.artists[k].name])

(* ---- C25 ---- *)
IndexKey(e) == <<to_lowercase(e[2].name), to_lowercase(e[1])>>

\* ascending by lower-cased album name, then lower-cased artist name
SortedIndex(all) ==
    \A i \in 1..(Len(all) - 1) :
        LexLess(IndexKey(all[i]), IndexKey(all[i + 1]))
            \/ IndexKey(all[i]) = IndexKey(all[i + 1])

\* C25: in every state the flattened index of the LazyLibrary is ascending
\* by lower-cased album name and then lower-cased artist name, and so is
\* the flattened index the eager loader builds.
C25_IndexSorted ==
    SortedIndex(lazy.all_albums) /\ SortedIndex(all_albums)

\* two artists loaded whose albums are interleaved in the index
C25_Witness ==
    /\ lazy.all_albums_complete
    /\ Len(lazy.all_albums) >= 3
    /\ lazy.all_albums[1][1] # lazy.all_albums[2][1]
    /\ lazy.all_albums[2][1] # lazy.all_albums[3][1]

(* ---- C26 ---- *)
\* the (artist name, album) pairs stored on the lazy artists
LazyStored ==
    {<<lazy.artists[s[1]].name, lazy.artists[s[1]].albums[s[2]]>> :
        s \in UNION {{<<a, b>> : b \in 1..Len(lazy.artists[a].albums)} :
                     a \in {k \in 1..Len(lazy.artists) :
                               lazy.artists[k].loaded}}}

\* C26: the flattened index of the LazyLibrary holds exactly the
\* (artist name, album) pairs of the loaded artists, each once.
C26_IndexIsLoadedAlbums ==
    /\ {lazy.all_albums[i] : i \in 1..Len(lazy.all_albums)} = LazyStored
    /\ Len(lazy.all_albums) = Cardinality(LazyStored)
    /\ \A k \in 1..Len(lazy.artists) :
          ~lazy.artists[k].loaded => lazy.artists[k].albums = <<>>

\* two loaded artists with an album of the same name, and one not loaded
C26_Witness ==
    /\ \E i, j \in 1..Len(lazy.all_albums) :
          /\ lazy.all_albums[i][1] # lazy.all_albums[j][1]
          /\ lazy.all_albums[i][2].name = lazy.all_albums[j][2].name
    /\ lazy_pc = "ready"

(* ---- C27 ---- *)
IndexPairs(all) == {<<all[i][1], all[i][2].name>> : i \in 1..Len(all)}

\* C27: no step removes an (artist name, album name) entry from the
\* flattened index of the LazyLibrary or makes the index shorter.
C27_IndexGrows ==
    [][/\ IndexPairs(lazy.all_albums) \subseteq IndexPairs(lazy'.all_albums)
       /\ Len(lazy.all_albums) <= Len(lazy'.all_albums)]_lazyVars

\* a loop over the artists that loaded two of them into the index
C27_Witness ==
    /\ Len(queried) = 2
    /\ \E i, j \in 1..Len(lazy.all_albums) :
          lazy.all_albums[i][1] # lazy.all_albums[j][1]

(* ---- C28 ---- *)
\* C28: once the LazyLibrary is initialised, all_albums_complete is true
\* exactly when every artist is loaded, a library without artists included.
C28_CompleteIffAllLoaded ==
    lazy_pc \notin {"uninit", "init_failed"} =>
        (lazy.all_albums_complete
            <=> \A k \in 1..Len(lazy.artists) : lazy.artists[k].loaded)

(* ---- C29 ---- *)
\* the answers of Find with at most one song: an error, no song, one song
ShortResponses == {r \in FindResponses : Len(r[2]) <= 1}

\* C29: load_artist for an artist that is already loaded, whatever the
\* daemon would answer, issues no query, returns Ok and leaves the
\* LazyLibrary as it is; the flattened index never holds an (artist name,
\* album name) pair twice.
C29_LoadArtistIdempotent ==
    /\ [][\A artist_index \in 0..(Len(lazy.artists) - 1) :
            \A resp \in ShortResponses :
               (/\ lazy_pc = "ready"
                /\ lazy.artists[artist_index + 1].loaded
                /\ load_artist(artist_index, resp)) =>
                   /\ lazy' = lazy
                   /\ queried' = <<>>
                   /\ lazy_result' = "ok"]_lazyVars
    /\ [](Cardinality(IndexPairs(lazy.all_albums)) = Len(lazy.all_albums))

\* load_artist returned Ok without a query for a loaded artist that has
\* albums, while another artist is not loaded
C29_Witness ==
    /\ lazy_pc = "ready" /\ lazy_result = "ok" /\ queried = <<>>
    /\ ~lazy.all_albums_complete
    /\ lazy.all_albums # <<>>

(* ---- C30 ---- *)
\* C30: load_artist with an index at or past the number of artists,
\* whatever the daemon would answer, returns an error, issues no query and
\* leaves the LazyLibrary as it is.
C30_OutOfBoundsIsError ==
    [][\A resp \in ShortResponses :
          (/\ lazy_pc = "ready"
           /\ load_artist(Len(lazy.artists), resp)) =>
              /\ lazy' = lazy
              /\ queried' = <<>>
              /\ lazy_result' = "err"]_lazyVars

\* load_artist failed without a query on a library with a loaded artist
C30_Witness ==
    /\ lazy_pc = "ready" /\ lazy_result = "err" /\ queried = <<>>
    /\ lazy.all_albums # <<>>

(* ---- C31 ---- *)
\* C31: while to_full_library runs, every query is for the first artist
\* that is not loaded, so the queries are for artists not yet loaded and in
\* ascending index order; when it returns Ok every artist is loaded and the
\* Library returned has the lazy artists in their order with their stored
\* albums and the flattened index of the LazyLibrary.
C31_FullLibraryMirrorsLazy ==
    /\ [][(lazy_pc = "converting" /\ queried' # queried) =>
            \E i \in 0..(Len(lazy.artists) - 1) :
               /\ queried' = Append(queried, i)
               /\ ~lazy.artists[i + 1].loaded
               /\ \A k \in 1..i : lazy.artists[k].loaded
               /\ \A q \in 1..Len(queried) : queried[q] < i]_lazyVars
    /\ [][(lazy_pc = "converting" /\ lazy_pc' = "ready"
             /\ lazy_result' = "ok") =>
            /\ lazy' = lazy
            /\ \A k \in 1..Len(lazy.artists) : lazy.artists[k].loaded
            /\ Len(full_library'.artists) = Len(lazy.artists)
            /\ \A k \in 1..Len(lazy.artists) :
                  /\ full_library'.artists[k].name = lazy.artists[k].name
                  /\ full_library'.artists[k].albums = lazy.artists[k].albums
            /\ full_library'.all_albums = lazy.all_albums]_lazyVars

\* to_full_library returned a Library after it queried the first artist
\* only, the second one having been loaded before
C31_Witness ==
    /\ lazy_pc = "ready" /\ lazy_result = "ok"
    /\ Len(lazy.artists) = 2 /\ queried = <<0>>
    /\ Len(full_library.artists) = 2
    /\ full_library.all_albums # <<>>
    /\ full_library.all_albums = lazy.all_albums

(* ---- C35 ---- *)
\* the answer of a failed Find
FindFailed == <<"err", <<>>, "asc">>

\* C35: load_artist for an artist in range and not loaded, when Find fails,
\* returns the error and leaves the LazyLibrary as it is, so that the same
\* call would again query the daemon.
C35_FailedLoadChangesNothing ==
    [][\A artist_index \in 0..(Len(lazy.artists) - 1) :
          (/\ lazy_pc = "ready"
           /\ ~lazy.artists[artist_index + 1].loaded
           /\ load_artist(artist_index, FindFailed)) =>
              /\ lazy' = lazy
              /\ lazy_result' = "err"
              /\ queried' = <<artist_index>>
              /\ load_artist_entry(lazy', artist_index) = "query"]_lazyVars

\* a failed query for the second artist, the first one loaded with albums
C35_Witness ==
    /\ lazy_pc = "ready" /\ lazy_result = "err" /\ queried = <<1>>
    /\ lazy_i = 0
    /\ Len(lazy.artists) = 2
    /\ ~lazy.artists[2].loaded
    /\ lazy.all_albums # <<>>

(* ---- C36 ---- *)
\* C36: a poll with bit-perfect mode disabled or with the rate-control
\* backend unavailable issues no request and leaves the last play state and
\* the last sample rate as they were.
C36_DisabledPollChangesNothing ==
    [][\A bit_perfect, available, supported \in BOOLEAN :
        \A song \in PwSongs, status \in OptPlayStates :
          (/\ ~bit_perfect \/ ~available
           /\ handle_pipewire_state_change(bit_perfect, available, status,
                                           song, supported)) =>
              /\ rate_requests' = rate_requests
              /\ last_play_state' = last_play_state
              /\ last_sample_rate' = last_sample_rate]_pwVars

\* only disabled polls were made, an odd number of them
C36_Witness ==
    /\ pw_tick = TRUE
    /\ rate_requests = <<>>
    /\ last_play_state = "None" /\ last_sample_rate = NoRate

(* ---- C37 ---- *)
\* C37: in a run of enabled polls that observe no playback, at most one
\* reset is issued. The last play state is not Playing and the last request
\* is a reset exactly when the run has issued its reset, so a further
\* enabled poll that observes no playback issues nothing.
C37_OneResetPerPause ==
    [][\A supported \in BOOLEAN :
        \A song \in PwSongs, status \in OptPlayStates \ {"Playing"} :
          (/\ last_play_state # "Playing"
           /\ rate_requests # <<>>
           /\ rate_requests[Len(rate_requests)] = ResetRate
           /\ handle_pipewire_state_change(TRUE, TRUE, status, song,
                                           supported)) =>
              rate_requests' = rate_requests]_pwVars

(* ---- C38 ---- *)
\* C38: the Library returned by the eager loader holds every song of the
\* catalog at exactly one position (one track of one album of one artist),
\* and holds as many tracks as the catalog has songs.
C38_EverySongExactlyOnce ==
    lib_pc = "done" =>
        /\ \A f \in 1..Len(catalog) :
              Cardinality({s \in TrackSlots :
                  artists[s[1]].albums[s[2]].tracks[s[3]].file_path = f}) = 1
        /\ Cardinality(TrackSlots) = Len(catalog)

\* a catalog of three songs placed under two artists, two of the songs in
\* one album
C38_Witness ==
    /\ lib_pc = "done"
    /\ Len(catalog) = 3
    /\ Len(artists) = 2
    /\ Cardinality(TrackSlots) = 3
    /\ \E a \in 1..Len(artists) :
          \E b \in 1..Len(artists[a].albums) :
             Len(artists[a].albums[b].tracks) = 2

(* ---- C32 ---- *)
\* C32: a key that is pending is eventually in the cache and no longer
\* pending; a task that has marked a key pending leaves its fetch only by
\* inserting the key, whatever the reactor does meanwhile; and the pending
\* set is eventually empty for good once the reactor spawns no more tasks.
C32_PendingEventuallyCached ==
    /\ \A k \in Keys :
          (k \in pending) ~> (k \notin pending /\ entries[k] # Absent)
    /\ [][\A t \in TaskIds :
            (InFlight(t) /\ tasks'[t].pc \notin {"fetch", "await", "store"}) =>
                /\ entries'[tasks[t].key] # Absent
                /\ tasks[t].key \notin pending']_vars
    /\ <>[](pending = {})

\* the reactor has moved to another track and the on-demand fetch of the
\* track it left has been stored all the same
C32_Witness ==
    \E k \in Keys :
        /\ fetches[k] = 1 /\ entries[k] # Absent /\ pending = {}
        /\ current_song_file \notin {k, NoKey}
        /\ \E t \in TaskIds :
              /\ tasks[t].kind = "ondemand" /\ tasks[t].key = k
              /\ tasks[t].path = "miss" /\ tasks[t].pc = "done"
        /\ \E u \in TaskIds :
              tasks[u].kind = "ondemand" /\ tasks[u].key = current_song_file

(* ---- C33 ---- *)
\* C33: a task that waits to send on the result channel, the channel being
\* full and its receiver alive, does not hold the cache lock.
C33_NoLockWhileSending ==
    \A t \in TaskIds :
        (/\ tasks[t].pc \in {"send_hit", "send"}
         /\ ~rx_closed /\ Len(chan) = ChanCap) => lock # t

(* ---- C34 ---- *)
\* C34: an entry of the cover cache, once present, is never removed and
\* never changes, and a task stores its result only for a key that has no
\* entry, so that every key is inserted at most once.
C34_EntriesNeverChange ==
    [][/\ \A k \in Keys : entries[k] # Absent => entries'[k] = entries[k]
       /\ \A t \in TaskIds :
             (tasks[t].pc = "store" /\ tasks'[t].pc # "store") =>
                 /\ entries[tasks[t].key] = Absent
                 /\ entries'[tasks[t].key] = tasks[t].data]_vars

\* both keys stored by the task that fetched them, and afterwards found in
\* the cache, the one by an on-demand task and the other by a prefetch task
C34_Witness ==
    \E k, j \in Keys :
        /\ k # j
        /\ entries[k] # Absent /\ fetches[k] = 1
        /\ entries[j] # Absent /\ fetches[j] = 1
        /\ \E t, u \in TaskIds :
              /\ tasks[t].key = k /\ tasks[u].key = k
              /\ tasks[t].path = "miss" /\ tasks[t].pc = "done"
              /\ tasks[u].kind = "ondemand" /\ tasks[u].path = "hit"
              /\ tasks[u].pc = "done"
        /\ \E t, v \in TaskIds :
              /\ tasks[t].key = j /\ tasks[v].key = j
              /\ tasks[t].path = "miss" /\ tasks[t].pc = "done"
              /\ tasks[v].kind = "prefetch" /\ tasks[v].path = "hit"
====
